---- MODULE Spec2Model ----
(***************************************************************************)
(* A model of the fractal viewer: the ViewState kept by FractalApp, the    *)
(* per-frame input handling of FractalApp::custom_painting, the deferred   *)
(* paint callback FractalGl::paint and the teardown FractalApp::on_exit.   *)
(*                                                                         *)
(* The ViewState fields are Rust f32 values.  They are modelled as IEEE    *)
(* 754 binary32 values, [s, e, m] = sign, biased exponent, fraction, with  *)
(* round-to-nearest-even arithmetic, so that rounding, overflow and        *)
(* underflow are those of the program.                                     *)
(***************************************************************************)
EXTENDS Integers, Sequences, FiniteSets, TLC

(***************************************************************************)
(* binary32 arithmetic                                                     *)
(***************************************************************************)

\* The width of the significand of an f32, hidden bit included.
SigBits == 24

\* The largest biased exponent: infinities and NaNs.
ExpMax == 255

\* sig * 2^MinExp is the value of a subnormal with fraction sig.
MinExp == 0 - 149

Hidden == 2^(SigBits - 1)

F32(s, e, m) == [s |-> s, e |-> e, m |-> m]

PosZero == F32(0, 0, 0)

PosInf == F32(0, ExpMax, 0)

QuietNaN == F32(0, ExpMax, 2^22)

IsNaN(x) == x.e = ExpMax /\ x.m # 0

IsInf(x) == x.e = ExpMax /\ x.m = 0

IsZero(x) == x.e = 0 /\ x.m = 0

IsFinite(x) == x.e < ExpMax

SignXor(x, y) == (x.s + y.s) % 2

\* The integer significand and the exponent of a finite value: sig * 2^ex.
SigOf(x) == IF x.e = 0 THEN x.m ELSE Hidden + x.m

ExOf(x) == IF x.e = 0 THEN MinExp ELSE x.e - 150

RECURSIVE BitLen(_)
BitLen(n) == IF n = 0 THEN 0 ELSE 1 + BitLen(n \div 2)

MaxOf(a, b) == IF a >= b THEN a ELSE b

\* A nonzero significand shifted left to SigBits bits, with its exponent.
NormSig(x) == SigOf(x) * 2^(SigBits - BitLen(SigOf(x)))

NormEx(x) == ExOf(x) - (SigBits - BitLen(SigOf(x)))

\* The f32 nearest to sig * 2^ex (ties to even), sig < 2^30.  A sig that
\* stands for an inexact value carries a sticky lowest bit and at least two
\* bits below the rounding position.
RoundPack(s, sig, ex) ==
    IF sig = 0 THEN F32(s, 0, 0)
    ELSE
      LET shift == MaxOf(BitLen(sig) - SigBits, MinExp - ex)
          exq   == ex + shift
          q0    == IF shift <= 0 THEN sig * 2^(0 - shift)
                   ELSE IF shift > 30 THEN 0
                   ELSE sig \div 2^shift
          r     == IF shift <= 0 \/ shift > 30 THEN 0 ELSE sig % 2^shift
          half  == IF shift <= 0 \/ shift > 30 THEN 1 ELSE 2^(shift - 1)
          up    == r > half \/ (r = half /\ q0 % 2 = 1)
          q1    == IF up THEN q0 + 1 ELSE q0
          q     == IF q1 = 2 * Hidden THEN Hidden ELSE q1
          exr   == IF q1 = 2 * Hidden THEN exq + 1 ELSE exq
      IN  IF q < Hidden THEN F32(s, 0, q)
          ELSE IF exr + 150 >= ExpMax THEN F32(s, ExpMax, 0)
          ELSE F32(s, exr + 150, q - Hidden)

\* The product of two SigBits-bit significands, cut to 30 bits with the lost
\* bits kept as a sticky lowest bit.  Computed on 12-bit limbs.
MulSig(a, b) ==
    LET a1  == a \div 2^12
        a0  == a % 2^12
        b1  == b \div 2^12
        b0  == b % 2^12
        mid == a1 * b0 + a0 * b1
        los == a0 * b0 + (mid % 2^12) * 2^12
        lo  == los % 2^24
        hi  == a1 * b1 + mid \div 2^12 + los \div 2^24
        top == hi * 2^6 + lo \div 2^18
    IN  IF lo % 2^18 # 0 /\ top % 2 = 0 THEN top + 1 ELSE top

FMul(x, y) ==
    IF IsNaN(x) \/ IsNaN(y) THEN QuietNaN
    ELSE IF (IsInf(x) /\ IsZero(y)) \/ (IsZero(x) /\ IsInf(y)) THEN QuietNaN
    ELSE IF IsInf(x) \/ IsInf(y) THEN F32(SignXor(x, y), ExpMax, 0)
    ELSE IF IsZero(x) \/ IsZero(y) THEN F32(SignXor(x, y), 0, 0)
    ELSE RoundPack(SignXor(x, y), MulSig(NormSig(x), NormSig(y)),
                   NormEx(x) + NormEx(y) + 18)

\* n more quotient bits of rem / d by long division: <<quotient, remainder>>.
RECURSIVE DivBits(_, _, _, _)
DivBits(q, rem, d, n) ==
    IF n = 0 THEN <<q, rem>>
    ELSE IF 2 * rem >= d THEN DivBits(2 * q + 1, 2 * rem - d, d, n - 1)
    ELSE DivBits(2 * q, 2 * rem, d, n - 1)

\* The quotient of two SigBits-bit significands scaled by 2^28, the last bit
\* sticky.
DivSig(a, b) ==
    LET qr == DivBits(a \div b, a % b, b, 27)
    IN  2 * qr[1] + (IF qr[2] # 0 THEN 1 ELSE 0)

FDiv(x, y) ==
    IF IsNaN(x) \/ IsNaN(y) THEN QuietNaN
    ELSE IF (IsInf(x) /\ IsInf(y)) \/ (IsZero(x) /\ IsZero(y)) THEN QuietNaN
    ELSE IF IsInf(x) \/ IsZero(y) THEN F32(SignXor(x, y), ExpMax, 0)
    ELSE IF IsZero(x) \/ IsInf(y) THEN F32(SignXor(x, y), 0, 0)
    ELSE RoundPack(SignXor(x, y), DivSig(NormSig(x), NormSig(y)),
                   NormEx(x) - NormEx(y) - 28)

\* sig shifted right by d with the lost bits kept as a sticky lowest bit.
ShiftJam(sig, d) ==
    IF d = 0 THEN sig
    ELSE IF d > 30 THEN (IF sig # 0 THEN 1 ELSE 0)
    ELSE LET q == sig \div 2^d
         IN  IF sig % 2^d # 0 /\ q % 2 = 0 THEN q + 1 ELSE q

\* x + y for finite x, y with |x| >= |y|, on significands with 3 guard bits.
AddOrdered(x, y) ==
    LET A == SigOf(x) * 8
        B == ShiftJam(SigOf(y) * 8, ExOf(x) - ExOf(y))
    IN  IF x.s = y.s THEN RoundPack(x.s, A + B, ExOf(x) - 3)
        ELSE IF A = B THEN PosZero
        ELSE RoundPack(x.s, A - B, ExOf(x) - 3)

MagLess(x, y) == x.e < y.e \/ (x.e = y.e /\ x.m < y.m)

FAdd(x, y) ==
    IF IsNaN(x) \/ IsNaN(y) THEN QuietNaN
    ELSE IF IsInf(x) /\ IsInf(y) THEN (IF x.s = y.s THEN x ELSE QuietNaN)
    ELSE IF IsInf(x) THEN x
    ELSE IF IsInf(y) THEN y
    ELSE IF IsZero(x) /\ IsZero(y) THEN (IF x.s = y.s THEN x ELSE PosZero)
    ELSE IF IsZero(y) THEN x
    ELSE IF IsZero(x) THEN y
    ELSE IF MagLess(x, y) THEN AddOrdered(y, x)
    ELSE AddOrdered(x, y)

FNeg(x) == F32(1 - x.s, x.e, x.m)

FSub(x, y) == FAdd(x, FNeg(y))

\* x == y of f32: no NaN equals anything, and the two zeros are equal.
FEq(x, y) ==
    /\ ~IsNaN(x)
    /\ ~IsNaN(y)
    /\ (x = y \/ (IsZero(x) /\ IsZero(y)))

\* x < y of f32.
FLt(x, y) ==
    /\ ~IsNaN(x)
    /\ ~IsNaN(y)
    /\ ~(IsZero(x) /\ IsZero(y))
    /\ IF x.s # y.s THEN x.s = 1
       ELSE IF x.s = 0 THEN MagLess(x, y)
       ELSE MagLess(y, x)

FGt(x, y) == FLt(y, x)

\* `n as f32` for an i32 n with |n| < 2^30.
IntToF32(n) == IF n < 0 THEN RoundPack(1, 0 - n, 0) ELSE RoundPack(0, n, 0)

(***************************************************************************)
(* Values of the program                                                   *)
(***************************************************************************)

\* A decimal literal n/d of the source, as the nearest f32.
Dec(n, d) == FDiv(IntToF32(n), IntToF32(d))

Zero == IntToF32(0)

One == IntToF32(1)

Half == Dec(1, 2)

Vec2(x, y) == [x |-> x, y |-> y]

\* Bounds of the model: frames of the application run, frames of the
\* input-handling run, frames of the zoom-gesture run.
MaxFrames == 2

MaxInputFrames == 1

MaxZoomFrames == 2

\* `zoom *= 1.1`, `zoom *= 0.9`, `zoom *= 1.2`, `zoom /= 1.2`.
ScrollUpFactor == Dec(11, 10)

ScrollDownFactor == Dec(9, 10)

DoubleClickFactor == Dec(12, 10)

\* State::new(): the ViewState after construction.
State_new ==
    [zoom            |-> One,
     center_position |-> Vec2(Zero, Zero),
     c_julia         |-> Vec2(Dec(3, 10), Dec(1, 2)),
     fractal_type    |-> "Julia",
     high_quality    |-> TRUE,
     brightness      |-> Zero,
     gamma           |-> One,
     contrast        |-> Zero,
     r               |-> One,
     g               |-> Dec(1, 2),
     b               |-> Dec(1, 4)]

\* `fractal_type as i32`.
FractalTypeOrdinal(t) == IF t = "Mandelbrot" THEN 0 ELSE 1

(***************************************************************************)
(* Position, the centered space of the pointer computations                *)
(***************************************************************************)

\* Position::from_screen_space(pixels_per_point, pos).
from_screen_space(ppp, pos) == Vec2(FMul(pos.x, ppp), FMul(pos.y, ppp))

\* Position - Position and Position / f32.
PositionSub(a, b) == Vec2(FSub(a.x, b.x), FSub(a.y, b.y))

PositionDiv(a, z) == Vec2(FDiv(a.x, z), FDiv(a.y, z))

(***************************************************************************)
(* The rectangle of the canvas and the viewport of a paint callback        *)
(***************************************************************************)

\* A Rect in points: its min corner and its size.
RectOf(left, top, width, height) ==
    [left |-> left, top |-> top, width |-> width, height |-> height]

\* Rect::center(): the middle of min and max.
RectCenter(rect) ==
    Vec2(FMul(Half, FAdd(IntToF32(rect.left), IntToF32(rect.left + rect.width))),
         FMul(Half, FAdd(IntToF32(rect.top), IntToF32(rect.top + rect.height))))

\* f32::round() of a finite x with |x| < 2^30, as an integer: to the nearest,
\* halves away from zero.
RoundToInt(x) ==
    LET mag == IF ExOf(x) >= 0 THEN SigOf(x) * 2^ExOf(x)
               ELSE IF 0 - ExOf(x) > 30 THEN 0
               ELSE (SigOf(x) + 2^(0 - ExOf(x) - 1)) \div 2^(0 - ExOf(x))
    IN  IF x.s = 1 THEN 0 - mag ELSE mag

\* PaintCallbackInfo::viewport_in_pixels(): the rect of the callback in
\* physical pixels.
viewport_in_pixels(rect, ppp) ==
    [left_px   |-> RoundToInt(FMul(ppp, IntToF32(rect.left))),
     top_px    |-> RoundToInt(FMul(ppp, IntToF32(rect.top))),
     width_px  |-> RoundToInt(FMul(ppp, IntToF32(rect.width))),
     height_px |-> RoundToInt(FMul(ppp, IntToF32(rect.height)))]

(***************************************************************************)
(* FractalApp::update, the widgets of the side panel                       *)
(***************************************************************************)

Edit(field, f, b, t) == [field |-> field, f |-> f, b |-> b, t |-> t]

NoEdit == Edit("none", Zero, FALSE, "")

\* One widget of the side panel writes the value the user gave it.  Every
\* slider is built with SliderClamping::Never: its handle stays in the range
\* of the slider, the value typed into its field is taken as it is.
ApplyEdit(st, ed) ==
    CASE ed.field = "zoom" -> [st EXCEPT !.zoom = ed.f]
      [] ed.field = "high_quality" -> [st EXCEPT !.high_quality = ed.b]
      [] ed.field = "fractal_type" -> [st EXCEPT !.fractal_type = ed.t]
      [] ed.field = "c_julia.x" ->
           IF st.fractal_type = "Julia" THEN [st EXCEPT !.c_julia.x = ed.f]
           ELSE st
      [] ed.field = "c_julia.y" ->
           IF st.fractal_type = "Julia" THEN [st EXCEPT !.c_julia.y = ed.f]
           ELSE st
      [] ed.field = "contrast" -> [st EXCEPT !.contrast = ed.f]
      [] ed.field = "brightness" -> [st EXCEPT !.brightness = ed.f]
      [] ed.field = "gamma" -> [st EXCEPT !.gamma = ed.f]
      [] ed.field = "r" -> [st EXCEPT !.r = ed.f]
      [] ed.field = "g" -> [st EXCEPT !.g = ed.f]
      [] ed.field = "b" -> [st EXCEPT !.b = ed.f]
      [] OTHER -> st

(***************************************************************************)
(* FractalApp::custom_painting, the input of one frame                     *)
(***************************************************************************)

\* The input sample of one frame: smooth_scroll_delta.y, the flags of the
\* Response, interact_pointer_pos() (has_pointer FALSE: None), drag_delta(),
\* pixels_per_point(), the rect allocated to the canvas, and the widget the
\* user edited.
Sample(sy, dp, cp, ds, dr, dd, hp, pt, ppp, rect, ed) ==
    [scroll_y |-> sy, double_clicked_primary |-> dp, clicked_primary |-> cp,
     double_clicked_secondary |-> ds, dragged |-> dr, drag_delta |-> dd,
     has_pointer |-> hp, pointer |-> pt, pixels_per_point |-> ppp,
     rect |-> rect, edit |-> ed]

\* `zoom *= 1.1`.
ScrollUp(st) == [st EXCEPT !.zoom = FMul(st.zoom, ScrollUpFactor)]

\* `zoom *= 0.9`.
ScrollDown(st) == [st EXCEPT !.zoom = FMul(st.zoom, ScrollDownFactor)]

\* `zoom *= 1.2`.
PrimaryDoubleClick(st) == [st EXCEPT !.zoom = FMul(st.zoom, DoubleClickFactor)]

\* interact_pointer_pos().unwrap_or(Pos2 { x: 0.0, y: 0.0 }).
PointerOrOrigin(inp) == IF inp.has_pointer THEN inp.pointer ELSE Vec2(Zero, Zero)

\* diff_gl_space of the primary click.
ClickDiff(st, inp) ==
    PositionDiv(
        PositionSub(
            from_screen_space(inp.pixels_per_point, RectCenter(inp.rect)),
            from_screen_space(inp.pixels_per_point, PointerOrOrigin(inp))),
        st.zoom)

\* The primary click: center_position.x += diff.x, center_position.y -= diff.y.
PrimaryClick(st, inp) ==
    [st EXCEPT !.center_position =
        Vec2(FAdd(st.center_position.x, ClickDiff(st, inp).x),
             FSub(st.center_position.y, ClickDiff(st, inp).y))]

SecondaryDoubleClickWrongFactor(st) ==
    [st EXCEPT !.zoom = FDiv(st.zoom, ScrollUpFactor)]

\* `zoom /= 1.2`.
SecondaryDoubleClick(st) == [st EXCEPT !.zoom = FDiv(st.zoom, DoubleClickFactor)]

RuleChainClickFirst(st, inp) ==
    IF inp.clicked_primary /\ ~inp.double_clicked_primary THEN PrimaryClick(st, inp)
    ELSE IF FGt(inp.scroll_y, Zero) THEN ScrollUp(st)
    ELSE IF FLt(inp.scroll_y, Zero) THEN ScrollDown(st)
    ELSE IF inp.double_clicked_primary THEN PrimaryDoubleClick(st)
    ELSE IF inp.double_clicked_secondary THEN SecondaryDoubleClick(st)
    ELSE st

\* The if / else if chain on the scroll delta and the clicks.
RuleChain(st, inp) ==
    IF FGt(inp.scroll_y, Zero) THEN ScrollUp(st)
    ELSE IF FLt(inp.scroll_y, Zero) THEN ScrollDown(st)
    ELSE IF inp.double_clicked_primary THEN PrimaryDoubleClick(st)
    ELSE IF inp.clicked_primary THEN PrimaryClick(st, inp)
    ELSE IF inp.double_clicked_secondary THEN SecondaryDoubleClick(st)
    ELSE st

\* Vec2::length_sq().
length_sq(v) == FAdd(FMul(v.x, v.x), FMul(v.y, v.y))

\* drag_in_gl_space = drag_delta() * pixels_per_point().
DragInGlSpace(inp) ==
    Vec2(FMul(inp.drag_delta.x, inp.pixels_per_point),
         FMul(inp.drag_delta.y, inp.pixels_per_point))

DragNoScale(st, inp) ==
    IF inp.dragged /\ FGt(length_sq(inp.drag_delta), Zero)
    THEN [st EXCEPT !.center_position =
            Vec2(FAdd(st.center_position.x, FDiv(inp.drag_delta.x, st.zoom)),
                 FSub(st.center_position.y, FDiv(inp.drag_delta.y, st.zoom)))]
    ELSE st

\* The drag: center_position moves by drag_in_gl_space / zoom, y inverted.
Drag(st, inp) ==
    IF inp.dragged /\ FGt(length_sq(inp.drag_delta), Zero)
    THEN [st EXCEPT !.center_position =
            Vec2(FAdd(st.center_position.x, FDiv(DragInGlSpace(inp).x, st.zoom)),
                 FSub(st.center_position.y, FDiv(DragInGlSpace(inp).y, st.zoom)))]
    ELSE st

HandleInputDragFirst(st, inp) == RuleChain(Drag(st, inp), inp)

\* The ViewState at the end of custom_painting: the chain, then the drag.
HandleInput(st, inp) == Drag(RuleChain(st, inp), inp)

(***************************************************************************)
(* FractalGl::paint                                                        *)
(***************************************************************************)

GlCall(fn, name, args) == [fn |-> fn, name |-> name, args |-> args]

MappingsGammaFromBrightness(st) ==
    << <<"u_fractalZoom", st.zoom>>, <<"u_brightness", st.brightness>>,
       <<"u_gamma", st.brightness>>, <<"u_contrast", st.contrast>>,
       <<"u_r", st.r>>, <<"u_g", st.g>>, <<"u_b", st.b>> >>

\* The array `mappings` of the f32 uniforms.
Mappings(st) ==
    << <<"u_fractalZoom", st.zoom>>, <<"u_brightness", st.brightness>>,
       <<"u_gamma", st.gamma>>, <<"u_contrast", st.contrast>>,
       <<"u_r", st.r>>, <<"u_g", st.g>>, <<"u_b", st.b>> >>

FractalPositionNoHalf(st, vp) ==
    Vec2(FAdd(FAdd(st.center_position.x, FDiv(IntToF32(vp.left_px), st.zoom)),
              FDiv(IntToF32(vp.width_px), st.zoom)),
         FAdd(FAdd(st.center_position.y, FDiv(IntToF32(vp.top_px), st.zoom)),
              FDiv(IntToF32(vp.height_px), st.zoom)))

\* The two arguments bound to u_fractalPosition.
FractalPosition(st, vp) ==
    Vec2(FAdd(FAdd(st.center_position.x, FDiv(IntToF32(vp.left_px), st.zoom)),
              FDiv(FMul(Half, IntToF32(vp.width_px)), st.zoom)),
         FAdd(FAdd(st.center_position.y, FDiv(IntToF32(vp.top_px), st.zoom)),
              FDiv(FMul(Half, IntToF32(vp.height_px)), st.zoom)))

\* The calls that follow the loop over `mappings`, in their order.
PaintTail(j, st, vp) ==
    CASE j = 1 -> GlCall("uniform_1_i32", "u_highQuality",
                         <<IF st.high_quality THEN 1 ELSE 0>>)
      [] j = 2 -> GlCall("uniform_1_i32", "u_fractal_type",
                         <<FractalTypeOrdinal(st.fractal_type)>>)
      [] j = 3 -> GlCall("uniform_2_f32", "u_fractalPosition",
                         <<FractalPosition(st, vp).x, FractalPosition(st, vp).y>>)
      [] j = 4 -> GlCall("uniform_2_f32", "u_cJulia", <<st.c_julia.x, st.c_julia.y>>)
      [] j = 5 -> GlCall("bind_vertex_array", "vertex_array", <<>>)
      [] OTHER -> GlCall("draw_arrays", "TRIANGLES", <<0, 6>>)

\* The k-th call paint makes on the GL context: use_program, the loop over
\* `mappings`, then the tail.
PaintCall(k, st, vp) ==
    IF k = 1 THEN GlCall("use_program", "program", <<>>)
    ELSE IF k <= 1 + Len(Mappings(st))
    THEN GlCall("uniform_1_f32", Mappings(st)[k - 1][1], <<Mappings(st)[k - 1][2]>>)
    ELSE PaintTail(k - 1 - Len(Mappings(st)), st, vp)

\* The number of calls of one paint.
PaintCallCount(st) == 1 + Len(Mappings(st)) + 6

(***************************************************************************)
(* The state of the application                                            *)
(***************************************************************************)

VARIABLES
    state,             \* FractalApp.state, the ViewState
    pixels_per_point,  \* ctx.pixels_per_point() of the display
    callbacks,         \* the PaintCallbacks added to the painter, not yet run
    paint_pc,          \* where the running paint callback is
    cur,               \* the callback being run: its captured data and rect
    gl_log,            \* the GL calls of the paint callback run last
    lock,              \* the holder of the Mutex around FractalGl
    program,           \* FractalGl.program: "live" or "deleted"
    vertex_array,      \* FractalGl.vertex_array: "live" or "deleted"
    phase,             \* the life of the application
    deletes,           \* how many times delete_program was called
    frames,            \* how many frames update has handled
    last,              \* the input of the last frame and the state before it
    prev,              \* the same of the frame before the last
    scheduled          \* the ViewState at the end of each frame, in order

vars == <<state, pixels_per_point, callbacks, paint_pc, cur, gl_log, lock,
          program, vertex_array, phase, deletes, frames, last, prev, scheduled>>

gl_vars == <<lock, program, vertex_array, deletes>>

paint_vars == <<callbacks, paint_pc, cur, gl_log>>

ui_vars == <<state, frames, last, prev, scheduled>>

(***************************************************************************)
(* The inputs the model draws                                              *)
(***************************************************************************)

\* The canvas right of the side panel, a canvas at the window origin, and a
\* canvas with no room left.
CanvasRect == RectOf(200, 0, 800, 600)

OriginRect == RectOf(0, 0, 800, 600)

EmptyRect == RectOf(0, 0, 0, 0)

Rects == {CanvasRect, OriginRect, EmptyRect}

DisplayScales == {One, Dec(3, 2)}

Scrolls == {IntToF32(0 - 12), Zero, IntToF32(12)}

\* double_clicked_by(Primary), clicked_by(Primary), double_clicked_by(Secondary):
\* a double click is a click too.
ClickFlags == {f \in BOOLEAN \X BOOLEAN \X BOOLEAN : f[1] => f[2]}

NoDrag == [dragged |-> FALSE, delta |-> Vec2(Zero, Zero)]

StillDrag == [dragged |-> TRUE, delta |-> Vec2(Zero, Zero)]

MovedDrag == [dragged |-> TRUE, delta |-> Vec2(IntToF32(7), IntToF32(0 - 3))]

Drags == {NoDrag, StillDrag, MovedDrag}

NoPointer == [has |-> FALSE, pos |-> Vec2(Zero, Zero)]

PointerAt(x, y) == [has |-> TRUE, pos |-> Vec2(IntToF32(x), IntToF32(y))]

\* No pointer position, the center of CanvasRect, another point of it.
Pointers == {NoPointer, PointerAt(600, 300), PointerAt(250, 450)}

\* A frame in which nothing happens on a canvas of the given rect.
IdleSample(ppp, rect) ==
    Sample(Zero, FALSE, FALSE, FALSE, FALSE, Vec2(Zero, Zero), FALSE,
           Vec2(Zero, Zero), ppp, rect, NoEdit)

\* Every combination of scroll, clicks, drag and pointer on the canvas, at
\* each display scale.
\* interact_pointer_pos() is Some only while the canvas is clicked or dragged.
GestureSamples ==
    {s \in {Sample(sy, f[1], f[2], f[3], d.dragged, d.delta, pt.has, pt.pos,
                   ppp, CanvasRect, NoEdit) :
                sy \in Scrolls, f \in ClickFlags, d \in Drags, pt \in Pointers,
                ppp \in DisplayScales} :
        s.has_pointer => (s.clicked_primary \/ s.double_clicked_secondary \/ s.dragged)}

\* The values typed into the field of the zoom slider, out of its range too.
ZoomEdits == {Zero, IntToF32(0 - 1), IntToF32(5000)}

Edits ==
    {Edit("zoom", z, FALSE, "") : z \in ZoomEdits}
    \cup {Edit("high_quality", Zero, FALSE, ""),
          Edit("fractal_type", Zero, FALSE, "Mandelbrot"),
          Edit("c_julia.x", Dec(0 - 4, 10), FALSE, ""),
          Edit("c_julia.y", Dec(6, 10), FALSE, ""),
          Edit("contrast", Dec(1, 4), FALSE, ""),
          Edit("brightness", Dec(0 - 1, 2), FALSE, ""),
          Edit("gamma", IntToF32(2), FALSE, ""),
          Edit("r", Dec(1, 8), FALSE, ""),
          Edit("g", Dec(3, 4), FALSE, ""),
          Edit("b", Dec(5, 8), FALSE, ""),
          Edit("exit", Zero, FALSE, "")}

\* A widget of the side panel is edited: the pointer is not on the canvas,
\* the scroll delta is read all the same.
EditSamples ==
    {Sample(sy, FALSE, FALSE, FALSE, FALSE, Vec2(Zero, Zero), FALSE,
            Vec2(Zero, Zero), ppp, CanvasRect, ed) :
        sy \in {Zero, IntToF32(12)}, ed \in Edits, ppp \in DisplayScales}

InputSamples == GestureSamples \cup EditSamples

\* The button gestures alone, for the runs of several frames.
ZoomSamples ==
    {s \in GestureSamples : ~s.dragged /\ ~s.has_pointer}

\* The samples of the application run: an idle frame on each rect, one
\* gesture of each kind, one edit of each type of widget, 0 typed into the
\* field of the zoom slider.
CoreSamples ==
    {IdleSample(ppp, rect) : rect \in Rects, ppp \in DisplayScales}
    \cup {s \in GestureSamples :
            \/ /\ FGt(s.scroll_y, Zero)
               /\ ~s.clicked_primary /\ ~s.double_clicked_secondary /\ ~s.dragged
            \/ /\ FEq(s.scroll_y, Zero)
               /\ s.clicked_primary /\ ~s.double_clicked_primary
               /\ ~s.double_clicked_secondary /\ ~s.dragged
               /\ s.pointer = PointerAt(250, 450).pos /\ s.has_pointer
            \/ /\ FEq(s.scroll_y, Zero)
               /\ ~s.clicked_primary /\ ~s.double_clicked_secondary
               /\ s.dragged /\ ~FEq(s.drag_delta.x, Zero) /\ ~s.has_pointer}
    \cup {s \in EditSamples :
            /\ FEq(s.scroll_y, Zero)
            /\ s.edit.field \in {"high_quality", "fractal_type", "gamma", "exit"}}
    \cup {Sample(Zero, FALSE, FALSE, FALSE, FALSE, Vec2(Zero, Zero), FALSE,
                 Vec2(Zero, Zero), ppp, CanvasRect,
                 Edit("zoom", Zero, FALSE, "")) : ppp \in DisplayScales}

RECURSIVE Times(_, _, _)
Times(z, f, n) == IF n = 0 THEN z ELSE Times(FMul(z, f), f, n - 1)

\* Zooms the gestures reach from the zoom of State::new(): the start itself,
\* six scrolls up, and the ends of the range of the zoom slider.
StartZooms == {One, Times(One, ScrollUpFactor, 6), IntToF32(300)}

\* The least and the greatest positive finite f32, where the zoom ends after
\* scrolling down or up for long enough.
MinPositive == F32(0, 0, 1)

MaxFinite == F32(0, ExpMax - 1, Hidden - 1)

ZoomRange == StartZooms \cup {MinPositive, MaxFinite}

StartCenters == {Vec2(Dec(0 - 3, 4), Dec(1, 4))}

(***************************************************************************)
(* Initial states                                                          *)
(***************************************************************************)

NoCallback == [data |-> State_new, rect |-> EmptyRect, frame |-> 0]

InitFrom(st, ppp) ==
    /\ state = st
    /\ pixels_per_point = ppp
    /\ callbacks = <<>>
    /\ paint_pc = "idle"
    /\ cur = NoCallback
    /\ gl_log = <<>>
    /\ lock = "free"
    /\ program = "live"
    /\ vertex_array = "live"
    /\ phase = "running"
    /\ deletes = 0
    /\ frames = 0
    /\ last = [inp |-> IdleSample(ppp, EmptyRect), pre |-> st, edited |-> st]
    /\ prev = [inp |-> IdleSample(ppp, EmptyRect), pre |-> st, edited |-> st]
    /\ scheduled = <<>>

\* FractalApp::new: the FractalGl behind its Mutex, and State::new().
Init == \E ppp \in DisplayScales : InitFrom(State_new, ppp)

\* The input-handling run starts at a ViewState some earlier frames left:
\* a zoom the gestures reached, or the 0 typed into the zoom slider.
InitInput ==
    \E ppp \in DisplayScales, z \in StartZooms \cup {Zero}, c \in StartCenters :
        InitFrom([State_new EXCEPT !.zoom = z, !.center_position = c], ppp)

InitZoom ==
    \E z \in ZoomRange, c \in StartCenters :
        InitFrom([State_new EXCEPT !.zoom = z, !.center_position = c], One)

(***************************************************************************)
(* FractalApp::update                                                      *)
(***************************************************************************)

\* `let data = self.state`: the copy of the ViewState moved into the callback.
Snapshot(st) == st

\* One frame: the widgets of the side panel (the Exit button ends the
\* process there and then), custom_painting on the input of the frame, and
\* the PaintCallback added to the painter.
update(inp, max) ==
    /\ phase = "running"
    /\ frames < max
    /\ inp.pixels_per_point = pixels_per_point
    /\ IF inp.edit.field = "exit"
       THEN /\ phase' = "exited"
            /\ UNCHANGED <<ui_vars, paint_vars, gl_vars, pixels_per_point>>
       ELSE /\ state' = HandleInput(ApplyEdit(state, inp.edit), inp)
            /\ callbacks' = Append(callbacks,
                                   [data |-> Snapshot(state'), rect |-> inp.rect,
                                    frame |-> frames + 1])
            /\ frames' = frames + 1
            /\ last' = [inp |-> inp, pre |-> state,
                        edited |-> ApplyEdit(state, inp.edit)]
            /\ prev' = last
            /\ scheduled' = Append(scheduled, state')
            /\ UNCHANGED <<paint_pc, cur, gl_log, gl_vars, phase, pixels_per_point>>

UpdateFrame == \E inp \in CoreSamples : update(inp, MaxFrames)

InputFrame == \E inp \in InputSamples : update(inp, MaxInputFrames)

ZoomFrame == \E inp \in ZoomSamples : update(inp, MaxZoomFrames)

(***************************************************************************)
(* The paint callback: fractal.lock().paint(painter.gl(), data, info)      *)
(***************************************************************************)

PaintDataLive(cb) == state

\* The State the closure passes to paint: the `data` it captured.
PaintData(cb) == cb.data

\* fractal.lock(): the callback takes the Mutex.
PaintLock ==
    /\ phase \in {"running", "on_exit", "destroying"}
    /\ paint_pc = "idle"
    /\ callbacks # <<>>
    /\ lock = "free"
    /\ lock' = "paint"
    /\ paint_pc' = "painting"
    /\ cur' = Head(callbacks)
    /\ callbacks' = Tail(callbacks)
    /\ gl_log' = <<>>
    /\ UNCHANGED <<ui_vars, program, vertex_array, deletes, phase, pixels_per_point>>

\* The next call of paint on the GL context.
PaintStep ==
    /\ paint_pc = "painting"
    /\ Len(gl_log) < PaintCallCount(PaintData(cur))
    /\ gl_log' = Append(gl_log,
                        PaintCall(Len(gl_log) + 1, PaintData(cur),
                                  viewport_in_pixels(cur.rect, pixels_per_point)))
    /\ UNCHANGED <<ui_vars, callbacks, paint_pc, cur, gl_vars, phase, pixels_per_point>>

\* paint returns and the guard of the Mutex is dropped.
PaintUnlock ==
    /\ paint_pc = "painting"
    /\ Len(gl_log) = PaintCallCount(PaintData(cur))
    /\ paint_pc' = "idle"
    /\ lock' = "free"
    /\ UNCHANGED <<ui_vars, callbacks, cur, gl_log, program, vertex_array,
                   deletes, phase, pixels_per_point>>

(***************************************************************************)
(* FractalApp::on_exit and FractalGl::destroy                              *)
(***************************************************************************)

\* The event loop ends and calls on_exit, with a GL context or without one.
OnExit ==
    /\ phase = "running"
    /\ \E gl \in BOOLEAN : phase' = IF gl THEN "on_exit" ELSE "closed"
    /\ UNCHANGED <<ui_vars, paint_vars, gl_vars, pixels_per_point>>

ExitLockNoMutex ==
    /\ phase = "on_exit"
    /\ lock' = "on_exit"
    /\ phase' = "destroying"
    /\ UNCHANGED <<ui_vars, paint_vars, program, vertex_array, deletes,
                   pixels_per_point>>

\* self.fractal.lock(): on_exit takes the Mutex.
ExitLock ==
    /\ phase = "on_exit"
    /\ lock = "free"
    /\ lock' = "on_exit"
    /\ phase' = "destroying"
    /\ UNCHANGED <<ui_vars, paint_vars, program, vertex_array, deletes,
                   pixels_per_point>>

\* gl.delete_program(self.program).
DeleteProgram ==
    /\ phase = "destroying"
    /\ program = "live"
    /\ program' = "deleted"
    /\ deletes' = deletes + 1
    /\ UNCHANGED <<ui_vars, paint_vars, lock, vertex_array, phase, pixels_per_point>>

\* gl.delete_vertex_array(self.vertex_array).
DeleteVertexArray ==
    /\ phase = "destroying"
    /\ program = "deleted"
    /\ vertex_array = "live"
    /\ vertex_array' = "deleted"
    /\ UNCHANGED <<ui_vars, paint_vars, lock, program, deletes, phase,
                   pixels_per_point>>

\* destroy returns and the guard of the Mutex is dropped.
ExitUnlock ==
    /\ phase = "destroying"
    /\ vertex_array = "deleted"
    /\ lock' = "free"
    /\ phase' = "closed"
    /\ UNCHANGED <<ui_vars, paint_vars, program, vertex_array, deletes,
                   pixels_per_point>>

(***************************************************************************)
(* Specifications                                                          *)
(***************************************************************************)

Next ==
    \/ UpdateFrame
    \/ PaintLock
    \/ PaintStep
    \/ PaintUnlock
    \/ OnExit
    \/ ExitLock
    \/ DeleteProgram
    \/ DeleteVertexArray
    \/ ExitUnlock

\* The application: frames, paint callbacks and the teardown, interleaved.
Spec == Init /\ [][Next]_vars

\* The handling of one frame's input, from the ViewStates earlier frames left.
SpecInput == InitInput /\ [][InputFrame]_vars

\* Frames of button and scroll gestures, over the whole range of the zoom.
SpecZoom == InitZoom /\ [][ZoomFrame]_vars

(***************************************************************************)
(* Properties                                                              *)
(***************************************************************************)

\* The last frame, once there is one: its input, and the ViewState
\* custom_painting started from (the widgets of the side panel applied).
HadFrame == frames >= 1

NoScroll(i) == ~FGt(i.scroll_y, Zero) /\ ~FLt(i.scroll_y, Zero)

\* The primary single click is the rule that acts.
ClickActs(i) == NoScroll(i) /\ ~i.double_clicked_primary /\ i.clicked_primary

\* No rule of the chain acts.
NoRuleActs(i) ==
    /\ NoScroll(i)
    /\ ~i.double_clicked_primary
    /\ ~i.clicked_primary
    /\ ~i.double_clicked_secondary

\* The pointer is dragged by a nonzero delta.
DragMoves(i) ==
    i.dragged /\ (~FEq(i.drag_delta.x, Zero) \/ ~FEq(i.drag_delta.y, Zero))

\* c moved by the drag of input i at zoom z: (dx*p/z, -dy*p/z).
MovedBy(c, i, z) ==
    Vec2(FAdd(c.x, FDiv(FMul(i.drag_delta.x, i.pixels_per_point), z)),
         FSub(c.y, FDiv(FMul(i.drag_delta.y, i.pixels_per_point), z)))

\* c recentered by the click of input i at zoom z: (Pc - Qc)/z, y inverted.
RecenteredBy(c, i, z) ==
    LET Pc == from_screen_space(i.pixels_per_point, RectCenter(i.rect))
        Qc == from_screen_space(i.pixels_per_point, PointerOrOrigin(i))
    IN  Vec2(FAdd(c.x, FDiv(FSub(Pc.x, Qc.x), z)),
             FSub(c.y, FDiv(FSub(Pc.y, Qc.y), z)))

\* C1: in one frame only the first matching rule of the chain (scroll up,
\* scroll down, primary double click, primary click, secondary double click)
\* updates the ViewState: the zoom is scaled by the factor of that rule alone,
\* and unless the primary click is that rule (or the pointer is dragged) the
\* center is the one the frame started with; no other field changes.
C1_FirstMatchingRuleWins ==
    HadFrame =>
      LET i == last.inp
          s0 == last.edited
      IN  /\ FGt(i.scroll_y, Zero) => state.zoom = FMul(s0.zoom, ScrollUpFactor)
          /\ FLt(i.scroll_y, Zero) => state.zoom = FMul(s0.zoom, ScrollDownFactor)
          /\ (NoScroll(i) /\ i.double_clicked_primary)
                => state.zoom = FMul(s0.zoom, DoubleClickFactor)
          /\ ClickActs(i) => state.zoom = s0.zoom
          /\ (NoScroll(i) /\ ~i.clicked_primary /\ ~i.double_clicked_primary
                /\ i.double_clicked_secondary)
                => state.zoom = FDiv(s0.zoom, DoubleClickFactor)
          /\ NoRuleActs(i) => state.zoom = s0.zoom
          /\ (~ClickActs(i) /\ ~DragMoves(i))
                => state.center_position = s0.center_position
          /\ [state EXCEPT !.zoom = s0.zoom,
                           !.center_position = s0.center_position] = s0

\* A frame with a scroll and a primary click off the center of the canvas.
C1_Witness ==
    /\ HadFrame
    /\ ~NoScroll(last.inp)
    /\ last.inp.clicked_primary
    /\ ~last.inp.double_clicked_primary
    /\ last.inp.has_pointer
    /\ last.inp.pointer # RectCenter(last.inp.rect)
    /\ ~last.inp.dragged
    /\ state.zoom # last.edited.zoom

\* C2: zoom > 0 in every reachable ViewState, whatever the gestures and the
\* edits of the zoom slider.
C2_ZoomPositive == FGt(state.zoom, Zero)

\* The gestures alone keep a positive zoom positive, down to the least
\* positive f32 and up to infinity.
GesturesKeepZoomPositive == FGt(state.zoom, Zero)

\* C3: every call of a paint callback binds the value of the ViewState as it
\* was at the end of the frame that scheduled the callback, whatever the
\* frames handled since.
C3_PaintBindsScheduledSnapshot ==
    \A k \in 1..Len(gl_log) :
        gl_log[k] = PaintCall(k, scheduled[cur.frame],
                              viewport_in_pixels(cur.rect, pixels_per_point))

\* A paint in progress, some uniforms bound, while a later frame has changed
\* the zoom of the ViewState.
C3_Witness ==
    /\ paint_pc = "painting"
    /\ Len(gl_log) >= 2
    /\ frames > cur.frame
    /\ state.zoom # scheduled[cur.frame].zoom
    /\ gl_log[2].args = <<scheduled[cur.frame].zoom>>

C5_ClickRecenters ==
    (HadFrame /\ ClickActs(last.inp) /\ ~DragMoves(last.inp)) =>
      LET i == last.inp
          s0 == last.edited
      IN  /\ state.center_position = RecenteredBy(s0.center_position, i, s0.zoom)
          /\ state.zoom = s0.zoom
          /\ PointerOrOrigin(i) = RectCenter(i.rect)
                => /\ FEq(state.center_position.x, s0.center_position.x)
                   /\ FEq(state.center_position.y, s0.center_position.y)

\* The same at a zoom that is not 0.
ClickRecentersAtNonzeroZoom ==
    IsZero(last.edited.zoom) \/ C5_ClickRecenters

\* The shift of the center by the drag of input i at zoom z, as Drag makes it
\* from the origin.
DragShiftAt(st, i, z) ==
    Drag([st EXCEPT !.zoom = z, !.center_position = Vec2(Zero, Zero)], i).center_position

CurViewport == viewport_in_pixels(cur.rect, pixels_per_point)

\* C7: the value bound to u_fractalPosition is, per axis, center +
\* viewport_origin_px/zoom + 0.5*viewport_size_px/zoom for every snapshot with
\* zoom > 0; it is the center itself for the viewport (0, 0, 0, 0), and
\* center + 0.5*size/zoom for a viewport at the origin.
C7_FractalPositionFormula ==
    \A k \in 1..Len(gl_log) :
        (gl_log[k].name = "u_fractalPosition" /\ FGt(cur.data.zoom, Zero)) =>
          LET c  == cur.data.center_position
              z  == cur.data.zoom
              vp == CurViewport
              sx == FDiv(FMul(Half, IntToF32(vp.width_px)), z)
              sy == FDiv(FMul(Half, IntToF32(vp.height_px)), z)
              px == gl_log[k].args[1]
              py == gl_log[k].args[2]
          IN  /\ px = FAdd(FAdd(c.x, FDiv(IntToF32(vp.left_px), z)), sx)
              /\ py = FAdd(FAdd(c.y, FDiv(IntToF32(vp.top_px), z)), sy)
              /\ (vp.left_px = 0 /\ vp.top_px = 0)
                    => px = FAdd(c.x, sx) /\ py = FAdd(c.y, sy)
              /\ (vp.left_px = 0 /\ vp.top_px = 0 /\ vp.width_px = 0
                    /\ vp.height_px = 0)
                    => FEq(px, c.x) /\ FEq(py, c.y)

\* u_fractalPosition bound for a viewport at the origin, of nonzero size, at
\* a zoom a scroll has changed.
C7_Witness ==
    /\ Len(gl_log) >= 11
    /\ gl_log[11].name = "u_fractalPosition"
    /\ cur.rect = OriginRect
    /\ FGt(cur.data.zoom, One)
    /\ gl_log[11].args[1] # cur.data.center_position.x

UniformCalls == {"uniform_1_f32", "uniform_1_i32", "uniform_2_f32"}

UniformNames ==
    {"u_fractalZoom", "u_brightness", "u_gamma", "u_contrast", "u_r", "u_g",
     "u_b", "u_highQuality", "u_fractal_type", "u_fractalPosition", "u_cJulia"}

\* The value the claim gives the uniform `name` for the snapshot st.
UniformValue(name, st, vp) ==
    CASE name = "u_fractalZoom" -> <<st.zoom>>
      [] name = "u_brightness" -> <<st.brightness>>
      [] name = "u_gamma" -> <<st.gamma>>
      [] name = "u_contrast" -> <<st.contrast>>
      [] name = "u_r" -> <<st.r>>
      [] name = "u_g" -> <<st.g>>
      [] name = "u_b" -> <<st.b>>
      [] name = "u_highQuality" -> <<IF st.high_quality THEN 1 ELSE 0>>
      [] name = "u_fractal_type" -> <<IF st.fractal_type = "Julia" THEN 1 ELSE 0>>
      [] name = "u_fractalPosition" ->
           <<FractalPosition(st, vp).x, FractalPosition(st, vp).y>>
      [] OTHER -> <<st.c_julia.x, st.c_julia.y>>

\* The places of the log where a uniform is bound.
BoundAt == {k \in 1..Len(gl_log) : gl_log[k].fn \in UniformCalls}

\* C8: every paint binds exactly the 11 named uniforms, each once and to the
\* value of the snapshot, whether or not the snapshot differs from the one of
\* the frame before, and all the binds precede the one draw call, of 6
\* vertices, which ends the paint.
C8_ElevenUniformsThenOneDraw ==
    /\ \A k \in BoundAt :
          /\ gl_log[k].name \in UniformNames
          /\ gl_log[k].args = UniformValue(gl_log[k].name, cur.data, CurViewport)
          /\ \A j \in BoundAt : gl_log[j].name = gl_log[k].name => j = k
    /\ \A k \in 1..Len(gl_log) :
          gl_log[k].fn = "draw_arrays"
            => /\ k = Len(gl_log)
               /\ gl_log[k].args = <<0, 6>>
               /\ {gl_log[j].name : j \in BoundAt} = UniformNames
               /\ \A j \in BoundAt : j < k
    /\ (paint_pc = "idle" /\ cur.frame >= 1)
          => /\ gl_log # <<>>
             /\ gl_log[Len(gl_log)].fn = "draw_arrays"

\* The paint of the second frame is done, and the second frame changed
\* nothing of the ViewState.
C8_Witness ==
    /\ paint_pc = "idle"
    /\ cur.frame = 2
    /\ scheduled[2] = scheduled[1]
    /\ gl_log # <<>>
    /\ gl_log[Len(gl_log)].fn = "draw_arrays"
    /\ Cardinality(BoundAt) = Cardinality(UniformNames)

\* The primary double click is the rule that acts, and nothing else happens.
PrimaryDoubleClickFrame(h) ==
    /\ NoScroll(h.inp)
    /\ h.inp.double_clicked_primary
    /\ ~DragMoves(h.inp)
    /\ h.inp.edit = NoEdit

\* The secondary double click is the rule that acts, and nothing else happens.
SecondaryDoubleClickFrame(h) ==
    /\ NoScroll(h.inp)
    /\ ~h.inp.double_clicked_primary
    /\ ~h.inp.clicked_primary
    /\ h.inp.double_clicked_secondary
    /\ ~DragMoves(h.inp)
    /\ h.inp.edit = NoEdit

\* The last two frames were a primary double click, then a secondary double
\* click, from a positive finite zoom.
RoundTripDone ==
    /\ frames >= 2
    /\ PrimaryDoubleClickFrame(prev)
    /\ SecondaryDoubleClickFrame(last)
    /\ FGt(prev.pre.zoom, Zero)
    /\ IsFinite(prev.pre.zoom)

\* The place of a positive f32 among the positive f32s, in increasing order.
Ordinal(x) == x.e * 2^(SigBits - 1) + x.m

\* x and y are the same f32 or neighbours.
WithinOneUlp(x, y) ==
    /\ x.s = y.s
    /\ ~IsNaN(x)
    /\ ~IsNaN(y)
    /\ Ordinal(x) - Ordinal(y) \in {0 - 1, 0, 1}

\* C9 as stated: a primary double click followed by a secondary double
\* click restores the zoom to z, and the center is the same.
C9_RoundTrip_AsStated ==
    RoundTripDone =>
      /\ state.zoom = prev.pre.zoom
      /\ state.center_position = prev.pre.center_position

\* C9: a primary double click followed by a secondary double click restores
\* the zoom to z or to one of the two f32 next to z, provided z * 1.2 is
\* finite; the center is the same.
C9_RoundTrip ==
    (RoundTripDone /\ IsFinite(last.pre.zoom)) =>
      /\ WithinOneUlp(state.zoom, prev.pre.zoom)
      /\ state.center_position = prev.pre.center_position

\* The two frames are done and the zoom is next to z, not z.
C9_Witness ==
    /\ RoundTripDone
    /\ IsFinite(last.pre.zoom)
    /\ state.zoom # prev.pre.zoom
    /\ last.pre.zoom = FMul(prev.pre.zoom, DoubleClickFactor)

\* C10: the drag is applied in every frame, after the chain: when a rule acts
\* and the pointer is dragged by a nonzero delta, both updates are made, and
\* the shift of the drag is divided by the zoom the rule has just set.
C10_DragAfterChain ==
    (HadFrame /\ DragMoves(last.inp)) =>
      LET i == last.inp
          s0 == last.edited
          c0 == s0.center_position
      IN  /\ FGt(i.scroll_y, Zero)
                => state.center_position
                     = MovedBy(c0, i, FMul(s0.zoom, ScrollUpFactor))
          /\ FLt(i.scroll_y, Zero)
                => state.center_position
                     = MovedBy(c0, i, FMul(s0.zoom, ScrollDownFactor))
          /\ (NoScroll(i) /\ i.double_clicked_primary)
                => state.center_position
                     = MovedBy(c0, i, FMul(s0.zoom, DoubleClickFactor))
          /\ ClickActs(i)
                => state.center_position
                     = MovedBy(RecenteredBy(c0, i, s0.zoom), i, s0.zoom)
          /\ (NoScroll(i) /\ ~i.clicked_primary /\ ~i.double_clicked_primary
                /\ i.double_clicked_secondary)
                => state.center_position
                     = MovedBy(c0, i, FDiv(s0.zoom, DoubleClickFactor))
          /\ NoRuleActs(i) => state.center_position = MovedBy(c0, i, s0.zoom)
          /\ state.center_position = MovedBy(RuleChain(s0, i).center_position,
                                             i, state.zoom)

\* A frame with a scroll up and a drag: the zoom is scaled, and the center is
\* not where the drag at the zoom before the scroll would have put it.
C10_Witness ==
    /\ HadFrame
    /\ DragMoves(last.inp)
    /\ FGt(last.inp.scroll_y, Zero)
    /\ state.zoom = FMul(last.edited.zoom, ScrollUpFactor)
    /\ IsFinite(state.center_position.x)
    /\ state.center_position
         # MovedBy(last.edited.center_position, last.inp, last.edited.zoom)

====
